---- MODULE Spec2Model ----
(***************************************************************************)
(* A model of the Go package creditcard (retgits/creditcard):              *)
(* Card.Validate and the helpers it calls (validExpiryMonth,               *)
(* validExpiryYear, isExpired, matchCVV, validCardNumber,                  *)
(* determineCardType, validateLuhn).                                       *)
(*                                                                         *)
(* A Go string is a sequence of one-character strings, so that slicing,    *)
(* len and strconv.Atoi are computed as the code computes them.  Error     *)
(* messages are TLA+ strings built by concatenation, as fmt.Sprintf does.  *)
(***************************************************************************)
EXTENDS Integers, Sequences, FiniteSets, TLC

VARIABLES card, now, calls, ret, luhn

vars == <<card, now, calls, ret, luhn>>

----------------------------------------------------------------------------
(* Strings and numbers                                                     *)

DigitChars == <<"0", "1", "2", "3", "4", "5", "6", "7", "8", "9">>

\* The value of a decimal digit, -1 for any other character.
DigitVal(ch) ==
    CASE ch = "0" -> 0 [] ch = "1" -> 1 [] ch = "2" -> 2 [] ch = "3" -> 3
      [] ch = "4" -> 4 [] ch = "5" -> 5 [] ch = "6" -> 6 [] ch = "7" -> 7
      [] ch = "8" -> 8 [] ch = "9" -> 9 [] OTHER -> 0 - 1

IsDigit(ch) == DigitVal(ch) >= 0

\* strconv.Atoi on a string of decimal digits; (0, error) on anything else,
\* the error being dropped by every caller in this package.
RECURSIVE AtoiAcc(_, _)
AtoiAcc(s, acc) ==
    IF s = <<>> THEN acc
    ELSE AtoiAcc(Tail(s), acc * 10 + DigitVal(Head(s)))

Atoi(s) ==
    IF s # <<>> /\ \A i \in 1..Len(s) : IsDigit(s[i])
    THEN AtoiAcc(s, 0)
    ELSE 0

\* The %d verb of fmt.Sprintf, as a sequence of characters.
RECURSIVE ItoaNat(_)
ItoaNat(n) ==
    IF n < 10 THEN <<DigitChars[n + 1]>>
    ELSE ItoaNat(n \div 10) \o <<DigitChars[(n % 10) + 1]>>

Itoa(n) == IF n < 0 THEN <<"-">> \o ItoaNat(0 - n) ELSE ItoaNat(n)

\* A sequence of characters as one string.
RECURSIVE Join(_)
Join(s) == IF s = <<>> THEN "" ELSE Head(s) \o Join(Tail(s))

----------------------------------------------------------------------------
(* cardType and cardTypeNames                                              *)

Unknown == 0
AmericanExpress == 1
Aura == 2
Bankcard == 3
Cabal == 4
ChinaUnionPay == 5
Dankort == 6
DinersClubCarteBlanche == 7
DinersClubEnroute == 8
DinersClubInternational == 9
Discover == 10
Elo == 11
Hipercard == 12
InstaPayment == 13
InterPayment == 14
JCB == 15
Maestro == 16
Mastercard == 17
Visa == 18
VisaElectron == 19

cardTypeNames ==
    << "Unknown Card",
       "American Express",
       "Aura",
       "Bankcard",
       "Cabal",
       "China UnionPay",
       "Dankort",
       "Diners Club Carte Blanche",
       "Diners Club Enroute",
       "Diners Club International",
       "Discover",
       "Elo",
       "Hipercard",
       "InstaPayment",
       "InterPayment",
       "JCB",
       "Maestro",
       "Mastercard",
       "Visa",
       "Visa Electron" >>

\* cardType.name(): the array is indexed from 0 in the code.
name(cardType) == cardTypeNames[cardType + 1]

----------------------------------------------------------------------------
(* determineCardType                                                       *)

ErrUnknownType == "unknown creditcard type"

\* ccDigits after the loop of lines 234-238: entry i is Atoi(Number[:i]) when
\* the number has at least i characters, and the zero value otherwise.
ccDigit(Number, i) ==
    IF i <= Len(Number) THEN Atoi(SubSeq(Number, 1, i)) ELSE 0

ccDigitsOf(Number) ==
    << ccDigit(Number, 1), ccDigit(Number, 2), ccDigit(Number, 3),
       ccDigit(Number, 4), ccDigit(Number, 5), ccDigit(Number, 6) >>

\* digits.at
at(d, i) == d[i]

Between(x, lo, hi) == x >= lo /\ x <= hi

caseElo(d) ==
    \/ at(d, 4) = 4011 \/ at(d, 6) = 431274 \/ at(d, 6) = 438935
    \/ at(d, 6) = 451416 \/ at(d, 6) = 457393 \/ at(d, 4) = 4576
    \/ at(d, 6) = 457631 \/ at(d, 6) = 457632 \/ at(d, 6) = 504175
    \/ at(d, 6) = 627780 \/ at(d, 6) = 636297 \/ at(d, 6) = 636368
    \/ at(d, 6) = 636369
    \/ Between(at(d, 6), 506699, 506778)
    \/ Between(at(d, 6), 509000, 509999)
    \/ Between(at(d, 6), 650031, 650051)
    \/ Between(at(d, 6), 650035, 650033)
    \/ Between(at(d, 6), 650405, 650439)
    \/ Between(at(d, 6), 650485, 650538)
    \/ Between(at(d, 6), 650541, 650598)
    \/ Between(at(d, 6), 650700, 650718)
    \/ Between(at(d, 6), 650720, 650727)
    \/ Between(at(d, 6), 650901, 650920)
    \/ Between(at(d, 6), 651652, 651679)
    \/ Between(at(d, 6), 655000, 655019)
    \/ Between(at(d, 6), 655021, 655021)

caseCabal(d) == Between(at(d, 6), 604201, 604219)

caseHipercard(d) ==
    \/ at(d, 6) = 384100 \/ at(d, 6) = 384140 \/ at(d, 6) = 384160
    \/ at(d, 6) = 606282 \/ at(d, 6) = 637095 \/ at(d, 4) = 637568
    \/ at(d, 4) = 637599 \/ at(d, 4) = 637609 \/ at(d, 4) = 637612

caseAmericanExpress(d) == at(d, 2) = 34 \/ at(d, 2) = 37

caseBankcard(d) == at(d, 4) = 5610 \/ Between(at(d, 6), 560221, 560225)

\* The China UnionPay case with the range the Discover case also names
\* left to Discover.
caseChinaUnionPayLessDiscover(d) ==
    at(d, 2) = 62 /\ ~Between(at(d, 6), 622126, 622925)

caseChinaUnionPay(d) == at(d, 2) = 62

caseDinersClubCarteBlanche(d, ccLen) ==
    Between(at(d, 3), 300, 305) /\ ccLen = 15

caseDinersClubEnroute(d) == at(d, 4) = 2014 \/ at(d, 4) = 2149

caseDinersClubInternational(d, ccLen) ==
    /\ \/ Between(at(d, 3), 300, 305) \/ at(d, 3) = 309
       \/ at(d, 2) = 36 \/ at(d, 2) = 38 \/ at(d, 2) = 39
    /\ ccLen <= 14

caseDiscover(d) ==
    \/ at(d, 4) = 6011 \/ Between(at(d, 6), 622126, 622925)
    \/ Between(at(d, 3), 644, 649) \/ at(d, 2) = 65

caseInterPayment(d, ccLen) == at(d, 3) = 636 /\ ccLen >= 16 /\ ccLen <= 19

caseInstaPayment(d, ccLen) == Between(at(d, 3), 637, 639) /\ ccLen = 16

\* The disjuncts of the Maestro case that Go evaluates before it slices
\* c.Number (|| evaluates left to right and stops at the first true one).
maestroBeforeSlice(d) ==
    \/ at(d, 4) = 5018 \/ at(d, 4) = 5020 \/ at(d, 4) = 5038
    \/ at(d, 4) = 5612 \/ at(d, 4) = 5893 \/ at(d, 4) = 6304
    \/ at(d, 4) = 6759 \/ at(d, 4) = 6761 \/ at(d, 4) = 6762
    \/ at(d, 4) = 6763

\* c.Number[:3] of line 302: a slice bound beyond len(c.Number) is a run-time
\* panic (slice bounds out of range).
sliceOutOfRange(Number) == Len(Number) < 3

\* c.Number[:3] == "0604": three characters compared with four.
sliceIs0604(Number) == SubSeq(Number, 1, 3) = <<"0", "6", "0", "4">>

maestroPanics(Number, d) == ~maestroBeforeSlice(d) /\ sliceOutOfRange(Number)

caseMaestro(Number, d) ==
    \/ maestroBeforeSlice(d)
    \/ sliceIs0604(Number)
    \/ at(d, 4) = 6390

caseDankort(d) == at(d, 4) = 5019

caseMastercard(d) == Between(at(d, 2), 51, 55)

caseJCB(d) == at(d, 2) = 35

caseAura(d) == at(d, 2) = 50

caseVisaElectron(d) ==
    \/ at(d, 4) = 4026 \/ at(d, 6) = 417500 \/ at(d, 4) = 4405
    \/ at(d, 4) = 4508 \/ at(d, 4) = 4844 \/ at(d, 4) = 4913
    \/ at(d, 4) = 4917

caseVisa(d) == at(d, 1) = 4

Found(t) == [status |-> "ok", cardType |-> t, err |-> ""]

NotFound == [status |-> "err", cardType |-> 0, err |-> ErrUnknownType]

Panic == [status |-> "panic", cardType |-> 0, err |-> ""]

\* The switch of lines 242-327: the cases are tried in order, the first true
\* one returns.
determineCardType(Number) ==
    LET ccLen == Len(Number)
        d == ccDigitsOf(Number)
    IN  IF caseElo(d) THEN Found(Elo)
        ELSE IF caseCabal(d) THEN Found(Cabal)
        ELSE IF caseHipercard(d) THEN Found(Hipercard)
        ELSE IF caseAmericanExpress(d) THEN Found(AmericanExpress)
        ELSE IF caseBankcard(d) THEN Found(Bankcard)
        ELSE IF caseChinaUnionPay(d) THEN Found(ChinaUnionPay)
        ELSE IF caseDinersClubCarteBlanche(d, ccLen)
             THEN Found(DinersClubCarteBlanche)
        ELSE IF caseDinersClubEnroute(d) THEN Found(DinersClubEnroute)
        ELSE IF caseDinersClubInternational(d, ccLen)
             THEN Found(DinersClubInternational)
        ELSE IF caseDiscover(d) THEN Found(Discover)
        ELSE IF caseInterPayment(d, ccLen) THEN Found(InterPayment)
        ELSE IF caseInstaPayment(d, ccLen) THEN Found(InstaPayment)
        ELSE IF maestroPanics(Number, d) THEN Panic
        ELSE IF caseMaestro(Number, d) THEN Found(Maestro)
        ELSE IF caseDankort(d) THEN Found(Dankort)
        ELSE IF caseMastercard(d) THEN Found(Mastercard)
        ELSE IF caseJCB(d) THEN Found(JCB)
        ELSE IF caseAura(d) THEN Found(Aura)
        ELSE IF caseVisaElectron(d) THEN Found(VisaElectron)
        ELSE IF caseVisa(d) THEN Found(Visa)
        ELSE NotFound

----------------------------------------------------------------------------
(* validateLuhn                                                            *)

\* The loop of lines 346-358, from index i (1-based here) down to the first
\* character.
RECURSIVE luhnLoop(_, _, _, _)
luhnLoop(Number, i, alternate, sum) ==
    IF i < 1 THEN sum
    ELSE LET mod0 == Atoi(<<Number[i]>>)
             dbl == mod0 * 2
             mod == IF alternate
                    THEN (IF dbl > 9 THEN (dbl % 10) + 1 ELSE dbl)
                    ELSE mod0
         IN  luhnLoop(Number, i - 1, ~alternate, sum + mod)

\* validateLuhn with the doubling begun at the rightmost digit.
validateLuhnDoubleFirst(Number) ==
    LET numberLen == Len(Number)
    IN  IF numberLen < 13 \/ numberLen > 19 THEN FALSE
        ELSE luhnLoop(Number, numberLen, TRUE, 0) % 10 = 0

validateLuhn(Number) ==
    LET numberLen == Len(Number)
    IN  IF numberLen < 13 \/ numberLen > 19 THEN FALSE
        ELSE luhnLoop(Number, numberLen, FALSE, 0) % 10 = 0

----------------------------------------------------------------------------
(* Expiry                                                                  *)

validExpiryMonth(c) == ~(c.ExpiryMonth < 1 \/ 12 < c.ExpiryMonth)

validExpiryYear(c) == ~(c.ExpiryYear < 1900 \/ c.ExpiryYear > 2200)

\* A moment of time: a calendar day (UTC) and the time elapsed in it (0 is
\* midnight).
Moment(y, m, d, s) == [year |-> y, month |-> m, day |-> d, sub |-> s]

\* The zero time.Time: January 1, year 1, 00:00:00 UTC.
ZeroTime == Moment(1, 1, 1, 0)

\* fmt.Sprintf("%d-%d-01", year, month)
dateString(c) ==
    Itoa(c.ExpiryYear) \o <<"-">> \o Itoa(c.ExpiryMonth) \o <<"-", "0", "1">>

\* The number of days of a month, as time.Parse checks the day against it.
daysIn(m, y) ==
    IF m = 2
    THEN (IF y % 4 = 0 /\ (y % 100 # 0 \/ y % 400 = 0) THEN 29 ELSE 28)
    ELSE IF m \in {4, 6, 9, 11} THEN 30 ELSE 31

\* time.Parse("2006-01-02", value), the error dropped (line 212).  The layout
\* element "2006" takes exactly four digits, "01" and "02" exactly two each,
\* "-" itself; the month must be in 1..12 and the day must exist; nothing may
\* follow.  On any error the zero time is returned.
timeParse(value) ==
    IF /\ Len(value) = 10
       /\ \A i \in {1, 2, 3, 4, 6, 7, 9, 10} : IsDigit(value[i])
       /\ value[5] = "-" /\ value[8] = "-"
       /\ Atoi(SubSeq(value, 6, 7)) \in 1..12
       /\ Atoi(SubSeq(value, 9, 10)) \in
              1..daysIn(Atoi(SubSeq(value, 6, 7)), Atoi(SubSeq(value, 1, 4)))
    THEN Moment(Atoi(SubSeq(value, 1, 4)), Atoi(SubSeq(value, 6, 7)),
                Atoi(SubSeq(value, 9, 10)), 0)
    ELSE ZeroTime

\* time.Time.Before
Before(t, u) ==
    \/ t.year < u.year
    \/ t.year = u.year /\ t.month < u.month
    \/ t.year = u.year /\ t.month = u.month /\ t.day < u.day
    \/ t.year = u.year /\ t.month = u.month /\ t.day = u.day /\ t.sub < u.sub

isExpired(c, t) ==
    IF ~validExpiryMonth(c) \/ ~validExpiryYear(c) THEN TRUE
    ELSE Before(timeParse(dateString(c)), t)

----------------------------------------------------------------------------
(* matchCVV and validCardNumber                                            *)

\* matchCVV without the "American Express" case.
matchCVVNoAmex(c) == Len(c.CVV) = 3

matchCVV(c) ==
    IF c.Type = "American Express" THEN Len(c.CVV) = 4 ELSE Len(c.CVV) = 3

ErrTypeMismatch == "given card type doesn't match determined card type"

\* validCardNumber without the comparison of line 182.
validCardNumberNoTypeCheck(c) ==
    LET r == determineCardType(c.Number)
    IN  IF r.status = "panic" THEN [panic |-> TRUE, valid |-> FALSE, err |-> ""]
        ELSE IF r.status = "err"
             THEN [panic |-> FALSE, valid |-> FALSE, err |-> r.err]
        ELSE [panic |-> FALSE, valid |-> validateLuhn(c.Number), err |-> ""]

\* validCardNumber returns (bool, error); err = "" stands for nil.
validCardNumber(c) ==
    LET r == determineCardType(c.Number)
    IN  IF r.status = "panic" THEN [panic |-> TRUE, valid |-> FALSE, err |-> ""]
        ELSE IF r.status = "err"
             THEN [panic |-> FALSE, valid |-> FALSE, err |-> r.err]
        ELSE IF name(r.cardType) # c.Type
             THEN [panic |-> FALSE, valid |-> FALSE, err |-> ErrTypeMismatch]
        ELSE [panic |-> FALSE, valid |-> validateLuhn(c.Number), err |-> ""]

----------------------------------------------------------------------------
(* Validate                                                                *)

errMonth(c) == "month '" \o Join(Itoa(c.ExpiryMonth)) \o "' is not a valid month"

errYear(c) == "year '" \o Join(Itoa(c.ExpiryYear)) \o "' is not a valid year"

ErrExpired == "creditcard is expired"

ErrCVV == "cvv doesn't match"

ErrNumber == "card number is not valid"

\* backfill with the assignment of line 155 made only when the classifier
\* returned no error.
backfillOnSuccessOnly(c) ==
    IF Len(c.Type) = 0
    THEN LET r == determineCardType(c.Number)
         IN  [panic |-> r.status = "panic",
              errs  |-> IF r.status = "err" THEN <<r.err>> ELSE <<>>,
              card  |-> IF r.status = "err" THEN c
                        ELSE [c EXCEPT !.Type = name(r.cardType)]]
    ELSE [panic |-> FALSE, errs |-> <<>>, card |-> c]

\* backfill with the assignment of line 155 made only when the classifier
\* returned an error.
backfillOnFailureOnly(c) ==
    IF Len(c.Type) = 0
    THEN LET r == determineCardType(c.Number)
         IN  [panic |-> r.status = "panic",
              errs  |-> IF r.status = "err" THEN <<r.err>> ELSE <<>>,
              card  |-> IF r.status = "err"
                        THEN [c EXCEPT !.Type = name(r.cardType)] ELSE c]
    ELSE [panic |-> FALSE, errs |-> <<>>, card |-> c]

\* Lines 150-156: with an empty Type the classifier runs, its error (if any)
\* is appended, and the name of the returned cardType is written to c.Type.
backfill(c) ==
    IF Len(c.Type) = 0
    THEN LET r == determineCardType(c.Number)
         IN  [panic |-> r.status = "panic",
              errs  |-> IF r.status = "err" THEN <<r.err>> ELSE <<>>,
              card  |-> [c EXCEPT !.Type = name(r.cardType)]]
    ELSE [panic |-> FALSE, errs |-> <<>>, card |-> c]

\* The Validation a panicking call never returns.
NoValidation ==
    [ValidCardNumber |-> FALSE, ValidExpiryMonth |-> FALSE,
     ValidExpiryYear |-> FALSE, ValidCVV |-> FALSE, IsExpired |-> FALSE,
     Errors |-> <<>>]

\* Validate with the CVV check (lines 158-161) reading the Type the card had
\* before the backfill of lines 150-156.
checksCVVFirst(c, t, b, n) ==
    LET month   == validExpiryMonth(c)
        e1      == IF ~month THEN <<errMonth(c)>> ELSE <<>>
        year    == validExpiryYear(c)
        e2      == IF ~year THEN <<errYear(c)>> ELSE <<>>
        expired == isExpired(c, t)
        e3      == IF expired THEN <<ErrExpired>> ELSE <<>>
        cvv     == matchCVV(c)
        e5      == IF cvv THEN <<ErrCVV>> ELSE <<>>
        e6      == IF n.err # "" THEN <<n.err>> ELSE <<>>
        e7      == IF n.valid THEN <<ErrNumber>> ELSE <<>>
    IN  IF b.panic THEN [panicked |-> TRUE, card |-> c, val |-> NoValidation]
        ELSE IF n.panic
             THEN [panicked |-> TRUE, card |-> b.card, val |-> NoValidation]
        ELSE [panicked |-> FALSE,
              card     |-> b.card,
              val      |-> [ValidCardNumber  |-> n.valid,
                            ValidExpiryMonth |-> month,
                            ValidExpiryYear  |-> year,
                            ValidCVV         |-> cvv,
                            IsExpired        |-> expired,
                            Errors |-> e1 \o e2 \o e3 \o e5 \o b.errs \o e6 \o e7]]

\* The body of Validate on card c at time t, given b, what lines 150-156 did
\* (backfill), and n, what c.validCardNumber() returned on line 163: whether
\* the call panicked, the card it leaves behind, the Validation it returns.
checks(c, t, b, n) ==
    LET month   == validExpiryMonth(c)
        e1      == IF ~month THEN <<errMonth(c)>> ELSE <<>>
        year    == validExpiryYear(c)
        e2      == IF ~year THEN <<errYear(c)>> ELSE <<>>
        expired == isExpired(c, t)
        e3      == IF expired THEN <<ErrExpired>> ELSE <<>>
        cvv     == matchCVV(b.card)
        e5      == IF cvv THEN <<ErrCVV>> ELSE <<>>
        e6      == IF n.err # "" THEN <<n.err>> ELSE <<>>
        e7      == IF n.valid THEN <<ErrNumber>> ELSE <<>>
    IN  IF b.panic THEN [panicked |-> TRUE, card |-> c, val |-> NoValidation]
        ELSE IF n.panic
             THEN [panicked |-> TRUE, card |-> b.card, val |-> NoValidation]
        ELSE [panicked |-> FALSE,
              card     |-> b.card,
              val      |-> [ValidCardNumber  |-> n.valid,
                            ValidExpiryMonth |-> month,
                            ValidExpiryYear  |-> year,
                            ValidCVV         |-> cvv,
                            IsExpired        |-> expired,
                            Errors |-> e1 \o e2 \o e3 \o b.errs \o e5 \o e6 \o e7]]

\* The element of a one-element set.
Only(S) == CHOOSE x \in S : TRUE

\* Card.Validate on card c at time t.  The card validCardNumber reads is the
\* one the backfill left (c is a pointer).
Validate(c, t) ==
    Only({ Only({ checks(c, t, b, n) : n \in {validCardNumber(b.card)} })
           : b \in {backfill(c)} })

----------------------------------------------------------------------------
(* The inputs                                                              *)

\* How many times in succession Validate is called on one Card.
MaxCalls == 2

\* Card numbers: those of the package's tests (one per card type), two more
\* Luhn-valid numbers, a number that begins 0604, and numbers too short to
\* slice.
Numbers ==
    { <<"5", "0", "1", "9", "7", "1", "7", "0", "1", "0", "1", "0", "3", "7", "4", "2">>,
      <<"3", "7", "8", "2", "8", "2", "2", "4", "6", "3", "1", "0", "0", "0", "5">>,
      <<"4", "1", "1", "1", "1", "1", "1", "1", "1", "1", "1", "1", "1", "1", "1", "1">>,
      <<"6", "5", "5", "0", "2", "1", "2", "4", "6", "3", "1", "0", "0", "0", "5">>,
      <<"6", "0", "4", "2", "0", "1", "2", "4", "6", "3", "1", "0", "0", "0", "5">>,
      <<"3", "8", "4", "1", "4", "0", "2", "4", "6", "3", "1", "0", "0", "0", "5">>,
      <<"5", "6", "0", "2", "2", "1", "2", "4", "6", "3", "1", "0", "0", "0", "5">>,
      <<"6", "2", "0", "2", "2", "1", "2", "4", "6", "3", "1", "0", "0", "0", "5">>,
      <<"3", "0", "0", "2", "2", "1", "2", "4", "6", "3", "1", "0", "0", "0", "5">>,
      <<"2", "0", "1", "4", "2", "1", "2", "4", "6", "3", "1", "0", "0", "0", "5">>,
      <<"3", "9", "0", "2", "2", "1", "2", "4", "6", "3", "1", "0", "0", "0">>,
      <<"6", "0", "1", "1", "2", "1", "2", "4", "6", "3", "1", "0", "0", "0", "5">>,
      <<"6", "3", "6", "1", "2", "1", "2", "4", "6", "3", "1", "0", "0", "0", "5", "0", "0">>,
      <<"6", "3", "7", "1", "2", "1", "2", "4", "6", "3", "1", "0", "0", "0", "5", "0">>,
      <<"5", "0", "1", "8", "2", "1", "2", "4", "6", "3", "1", "0", "0", "0", "5">>,
      <<"5", "1", "1", "8", "2", "1", "2", "4", "6", "3", "1", "0", "0", "0", "5">>,
      <<"3", "5", "1", "8", "2", "1", "2", "4", "6", "3", "1", "0", "0", "0", "5">>,
      <<"5", "0", "8", "8", "2", "1", "2", "4", "6", "3", "1", "0", "0", "0", "5">>,
      <<"4", "0", "2", "6", "2", "1", "2", "4", "6", "3", "1", "0", "0", "0", "5">>,
      <<"4", "0", "9", "9", "2", "1", "2", "4", "6", "3", "1", "0", "0", "0", "5">>,
      <<"0", "0", "0", "0", "0", "0", "0", "0", "0", "0">>,
      <<"0", "6", "0", "4", "0", "0", "0", "0", "0", "0", "0", "0", "0", "0", "0", "0">>,
      <<"5", "1", "0", "5", "1", "0", "5", "1", "0", "5", "1", "0", "5", "1", "0", "0">>,
      <<>>,
      <<"0">>,
      <<"5", "1">>,
      <<"4">>,
      <<"3", "4">> }

Types == {"", "Something", "American Express", "Dankort", "Visa", "Unknown Card"}

Months == {0, 1, 9, 10, 12, 13}

Years == {1899, 1900, 2026, 2027, 2200, 2201}

CVVs == {<<"1", "2">>, <<"1", "2", "3">>, <<"1", "2", "3", "4">>}

Cards ==
    [Type : Types, Number : Numbers, ExpiryMonth : Months, ExpiryYear : Years,
     CVV : CVVs]

\* The values time.Now() takes, in order: midnight of December 1, 2026 (UTC)
\* and a later moment of that day.
Clock == <<Moment(2026, 12, 1, 0), Moment(2026, 12, 1, 1)>>

\* ret before determineCardType has been called.
NoRet == [status |-> "none", cardType |-> 0, err |-> ""]

\* luhn before validateLuhn has been called.
NoLuhn == [called |-> FALSE, valid |-> FALSE]

----------------------------------------------------------------------------
(* The caller of Validate                                                  *)

Init ==
    /\ card \in Cards
    /\ now = Clock[1]
    /\ calls = <<>>
    /\ ret = NoRet
    /\ luhn = NoLuhn

Panicked == \E i \in 1..Len(calls) : calls[i].panicked

\* One call of c.Validate() by the owner of the Card; a panic ends the
\* caller.
CallValidate ==
    /\ Len(calls) < MaxCalls
    /\ ~Panicked
    /\ \E r \in {Validate(card, now)} :
           /\ card' = r.card
           /\ calls' = Append(calls, [in |-> card, out |-> r.card, at |-> now,
                                      panicked |-> r.panicked, val |-> r.val])
    /\ UNCHANGED <<now, ret, luhn>>

\* Time passes between calls.
Tick ==
    /\ \E i \in 1..(Len(Clock) - 1) : now = Clock[i] /\ now' = Clock[i + 1]
    /\ UNCHANGED <<card, calls, ret, luhn>>

Next == CallValidate \/ Tick

Spec == Init /\ [][Next]_vars

----------------------------------------------------------------------------
(* The classifier alone                                                    *)

\* The leading digits the rules of determineCardType name, with their
\* neighbours, and digits no rule names.
Prefixes ==
    { <<"4", "0", "1", "1">>, <<"4", "3", "1", "2", "7", "4">>, <<"4", "3", "8", "9", "3", "5">>, <<"4", "5", "1", "4", "1", "6">>,
      <<"4", "5", "7", "3", "9", "3">>, <<"4", "5", "7", "6">>, <<"4", "5", "7", "6", "3", "1">>, <<"4", "5", "7", "6", "3", "2">>,
      <<"5", "0", "4", "1", "7", "5">>, <<"6", "2", "7", "7", "8", "0">>, <<"6", "3", "6", "2", "9", "7">>, <<"6", "3", "6", "3", "6", "8">>,
      <<"6", "3", "6", "3", "6", "9">>, <<"5", "0", "6", "6", "9", "9">>, <<"5", "0", "6", "7", "7", "8">>, <<"5", "0", "6", "6", "9", "8">>,
      <<"5", "0", "6", "7", "7", "9">>, <<"5", "0", "9", "0", "0", "0">>, <<"5", "0", "9", "9", "9", "9">>, <<"6", "5", "0", "0", "3", "1">>,
      <<"6", "5", "0", "0", "3", "4">>, <<"6", "5", "0", "0", "5", "1">>, <<"6", "5", "0", "0", "5", "2">>, <<"6", "5", "0", "4", "0", "5">>,
      <<"6", "5", "0", "4", "3", "9">>, <<"6", "5", "0", "4", "8", "5">>, <<"6", "5", "0", "5", "3", "8">>, <<"6", "5", "0", "5", "4", "1">>,
      <<"6", "5", "0", "5", "9", "8">>, <<"6", "5", "0", "7", "0", "0">>, <<"6", "5", "0", "7", "1", "8">>, <<"6", "5", "0", "7", "1", "9">>,
      <<"6", "5", "0", "7", "2", "0">>, <<"6", "5", "0", "7", "2", "7">>, <<"6", "5", "0", "9", "0", "1">>, <<"6", "5", "0", "9", "2", "0">>,
      <<"6", "5", "1", "6", "5", "2">>, <<"6", "5", "1", "6", "7", "9">>, <<"6", "5", "5", "0", "0", "0">>, <<"6", "5", "5", "0", "1", "9">>,
      <<"6", "5", "5", "0", "2", "0">>, <<"6", "5", "5", "0", "2", "1">>, <<"6", "0", "4", "2", "0", "0">>, <<"6", "0", "4", "2", "0", "1">>,
      <<"6", "0", "4", "2", "1", "9">>, <<"6", "0", "4", "2", "2", "0">>, <<"3", "8", "4", "1", "0", "0">>, <<"3", "8", "4", "1", "4", "0">>,
      <<"3", "8", "4", "1", "6", "0">>, <<"6", "0", "6", "2", "8", "2">>, <<"6", "3", "7", "0", "9", "5">>, <<"6", "3", "7", "5", "6", "8">>,
      <<"6", "3", "7", "5", "9", "9">>, <<"6", "3", "7", "6", "0", "9">>, <<"6", "3", "7", "6", "1", "2">>, <<"3", "4">>,
      <<"3", "7">>, <<"5", "6", "1", "0">>, <<"5", "6", "0", "2", "2", "1">>, <<"5", "6", "0", "2", "2", "5">>,
      <<"5", "6", "0", "2", "2", "6">>, <<"6", "2">>, <<"6", "2", "2", "1", "2", "6">>, <<"6", "2", "2", "9", "2", "5">>,
      <<"3", "0", "0">>, <<"3", "0", "5">>, <<"3", "0", "6">>, <<"2", "0", "1", "4">>,
      <<"2", "1", "4", "9">>, <<"3", "0", "9">>, <<"3", "6">>, <<"3", "8">>,
      <<"3", "9">>, <<"6", "0", "1", "1">>, <<"6", "4", "4">>, <<"6", "4", "9">>,
      <<"6", "4", "3">>, <<"6", "5">>, <<"6", "3", "6">>, <<"6", "3", "7">>,
      <<"6", "3", "8">>, <<"6", "3", "9">>, <<"5", "0", "1", "8">>, <<"5", "0", "2", "0">>,
      <<"5", "0", "3", "8">>, <<"5", "6", "1", "2">>, <<"5", "8", "9", "3">>, <<"6", "3", "0", "4">>,
      <<"6", "7", "5", "9">>, <<"6", "7", "6", "1">>, <<"6", "7", "6", "2">>, <<"6", "7", "6", "3">>,
      <<"6", "3", "9", "0">>, <<"0", "6", "0", "4">>, <<"0", "6", "0">>, <<"5", "0", "1", "9">>,
      <<"5", "1">>, <<"5", "5">>, <<"5", "6">>, <<"3", "5">>,
      <<"5", "0">>, <<"4", "0", "2", "6">>, <<"4", "1", "7", "5", "0", "0">>, <<"4", "4", "0", "5">>,
      <<"4", "5", "0", "8">>, <<"4", "8", "4", "4">>, <<"4", "9", "1", "3">>, <<"4", "9", "1", "7">>,
      <<"4">>, <<"0">>, <<"1">>, <<"2">>,
      <<"3">>, <<"6">>, <<"7">>, <<"9">>,
      <<"6", "2", "2", "1", "2", "5">>, <<"6", "2", "2", "5", "0", "0">>,
      <<"6", "2", "2", "9", "2", "6">>,
      <<>> }

Lengths == {0, 1, 2, 3, 4, 6, 13, 14, 15, 16, 17, 19, 20}

\* s cut or padded with zeros to n characters.
Pad(s, n) ==
    IF n <= Len(s) THEN SubSeq(s, 1, n)
    ELSE s \o SubSeq(<<"0", "0", "0", "0", "0", "0", "0", "0", "0", "0",
                       "0", "0", "0", "0", "0", "0", "0", "0", "0", "0">>,
                     1, n - Len(s))

ClassifyNumbers == {Pad(p, n) : p \in Prefixes, n \in Lengths}

InitClassify ==
    /\ card \in [Type : {""}, Number : ClassifyNumbers, ExpiryMonth : {12},
                 ExpiryYear : {2027}, CVV : {<<"1", "2", "3">>}]
    /\ now = Clock[1]
    /\ calls = <<>>
    /\ ret = NoRet
    /\ luhn = NoLuhn

\* One call of c.determineCardType().
Determine ==
    /\ ret = NoRet
    /\ ret' = determineCardType(card.Number)
    /\ UNCHANGED <<card, now, calls, luhn>>

NextClassify == Determine

SpecClassify == InitClassify /\ [][NextClassify]_vars

----------------------------------------------------------------------------
(* The Luhn check alone                                                    *)

\* Digit strings that between them put every digit at doubled and at
\* undoubled places.
LuhnBodies ==
    { <<"0", "0", "0", "0", "0", "0", "0", "0", "0", "0",
        "0", "0", "0", "0", "0", "0", "0", "0">>,
      <<"5", "0", "1", "9", "7", "1", "7", "0", "1", "0",
        "1", "0", "3", "7", "4", "2", "8", "6">>,
      <<"9", "8", "7", "6", "5", "4", "3", "2", "1", "0",
        "9", "8", "7", "6", "5", "4", "3", "2">>,
      <<"3", "7", "8", "2", "8", "2", "2", "4", "6", "3",
        "1", "0", "0", "0", "5", "5", "9", "9">> }

LuhnLengths == {0, 1, 2, 10, 12, 13, 14, 15, 16, 18, 19, 20}

\* A number of n characters: the first n - 2 characters of a body, then x
\* and y (y alone when n = 1).
LuhnNumber(body, n, x, y) ==
    IF n = 0 THEN <<>>
    ELSE IF n = 1 THEN <<y>>
    ELSE SubSeq(body, 1, n - 2) \o <<x, y>>

LuhnNumbers ==
    { LuhnNumber(b, n, DigitChars[i], DigitChars[j]) :
          b \in LuhnBodies, n \in LuhnLengths, i \in 1..10, j \in 1..10 }

InitLuhn ==
    /\ card \in [Type : {""}, Number : LuhnNumbers, ExpiryMonth : {12},
                 ExpiryYear : {2027}, CVV : {<<"1", "2", "3">>}]
    /\ now = Clock[1]
    /\ calls = <<>>
    /\ ret = NoRet
    /\ luhn = NoLuhn

\* One call of c.validateLuhn().
CallValidateLuhn ==
    /\ ~luhn.called
    /\ luhn' = [called |-> TRUE, valid |-> validateLuhn(card.Number)]
    /\ UNCHANGED <<card, now, calls, ret>>

NextLuhn == CallValidateLuhn

SpecLuhn == InitLuhn /\ [][NextLuhn]_vars

----------------------------------------------------------------------------
(* What the claims speak of                                                *)

\* The calls of Validate that returned.
Returned == {i \in 1..Len(calls) : ~calls[i].panicked}

Contains(errs, m) == \E j \in 1..Len(errs) : errs[j] = m

\* The CVV length a card type requires.
RequiredCVV(type) == IF type = "American Express" THEN 4 ELSE 3

\* The first day of the card's expiry month, at midnight.
ExpiryDate(c) == Moment(c.ExpiryYear, c.ExpiryMonth, 1, 0)

InRange(c) == c.ExpiryMonth \in 1..12 /\ c.ExpiryYear \in 1900..2200

\* The display names of the README's list of supported card types.
SupportedTypes ==
    {"American Express", "Aura", "Bankcard", "Cabal", "China UnionPay",
     "Dankort", "Diners Club Carte Blanche", "Diners Club Enroute",
     "Diners Club International", "Discover", "Elo", "Hipercard",
     "InstaPayment", "InterPayment", "JCB", "Maestro", "Mastercard", "Visa",
     "Visa Electron"}

\* C1 speaks of this card: classifiable, 13..19 digits, Luhn-valid, Type empty
\* or the classified name, expiry in range and not before t, CVV of the
\* required length.
WellFormed(c, t) ==
    LET r == determineCardType(c.Number)
    IN  /\ r.status = "ok"
        /\ Len(c.Number) \in 13..19
        /\ validateLuhn(c.Number)
        /\ c.Type = "" \/ c.Type = name(r.cardType)
        /\ InRange(c)
        /\ ~Before(ExpiryDate(c), t)
        /\ Len(c.CVV) = RequiredCVV(name(r.cardType))

\* C1: Validate on a well-formed, Luhn-valid, unexpired card with the CVV
\* length its network requires returns an empty Errors list.
C1_WellFormedCardHasNoErrors ==
    \A i \in 1..Len(calls) :
        WellFormed(calls[i].in, calls[i].at)
            => ~calls[i].panicked /\ calls[i].val.Errors = <<>>

\* C2: Validate never panics, whatever the Card (the empty Number and
\* Numbers of one or two characters included), and an unclassifiable Number
\* is reported through the message "unknown creditcard type".
C2_ValidateNeverPanics ==
    \A i \in 1..Len(calls) :
        /\ ~calls[i].panicked
        /\ determineCardType(calls[i].in.Number).status = "err"
               => Contains(calls[i].val.Errors, ErrUnknownType)

\* C3: with ExpiryMonth in 1..12 and ExpiryYear in 1900..2200, IsExpired is
\* true exactly when the first day of the expiry month is strictly before
\* the moment of the call.
C3_ExpiredIffBeforeNow ==
    \A i \in Returned :
        InRange(calls[i].in)
            => (calls[i].val.IsExpired
                    <=> Before(ExpiryDate(calls[i].in), calls[i].at))

Unclassified(i) ==
    /\ calls[i].in.Type = ""
    /\ determineCardType(calls[i].in.Number).status = "err"

\* C5 as claimed: after Validate on a Card with an empty Type and a Number no
\* rule matches, the classifier's message is in Errors and Type is still
\* empty.
C5_TypeStaysEmpty ==
    \A i \in Returned :
        Unclassified(i)
            => /\ Contains(calls[i].val.Errors, ErrUnknownType)
               /\ calls[i].out.Type = ""

\* C5 as amended: after Validate on a Card with an empty Type and a Number no
\* rule matches, the classifier's message is in Errors and Type is
\* "Unknown Card", the name of the Unknown card type.
C5_TypeBecomesUnknownCard ==
    \A i \in Returned :
        Unclassified(i)
            => /\ Contains(calls[i].val.Errors, ErrUnknownType)
               /\ calls[i].out.Type = "Unknown Card"
               /\ i = Len(calls) => card.Type = "Unknown Card"

C5_Witness ==
    \E i \in Returned :
        /\ Unclassified(i)
        /\ Len(calls[i].in.Number) = 10
        /\ calls[i].out.Type # ""

\* C6: after Validate on a Card with an empty Type whose Number the
\* classifier recognises, Type is the display name of the recognised card
\* type, one of the 19 supported types.
C6_TypeBackfilled ==
    \A i \in Returned :
        LET r == determineCardType(calls[i].in.Number)
        IN  calls[i].in.Type = "" /\ r.status = "ok"
                => /\ calls[i].out.Type = name(r.cardType)
                   /\ calls[i].out.Type \in SupportedTypes
                   /\ i = Len(calls) => card.Type = name(r.cardType)

C6_Witness ==
    \E i \in Returned :
        /\ calls[i].in.Type = ""
        /\ determineCardType(calls[i].in.Number) = Found(VisaElectron)
        /\ calls[i].out.Type = "Visa Electron"

\* The calls C8 speaks of: a Type given by the caller that is not the name
\* of the card type the classifier determines.
Mismatched(i) ==
    LET r == determineCardType(calls[i].in.Number)
    IN  /\ calls[i].in.Type # ""
        /\ r.status = "ok"
        /\ calls[i].in.Type # name(r.cardType)

\* C8: Validate with a non-empty Type that differs from the determined card
\* type's name reports the mismatch, leaves ValidCardNumber false, does not
\* append the Luhn message and leaves Type as the caller supplied it.
C8_MismatchReported ==
    \A i \in Returned :
        Mismatched(i)
            => /\ Contains(calls[i].val.Errors, ErrTypeMismatch)
               /\ ~calls[i].val.ValidCardNumber
               /\ ~Contains(calls[i].val.Errors, ErrNumber)
               /\ calls[i].out.Type = calls[i].in.Type

C8_Witness ==
    \E i \in Returned :
        /\ Mismatched(i)
        /\ calls[i].in.Type = "Something"
        /\ validateLuhn(calls[i].in.Number)
        /\ Contains(calls[i].val.Errors, ErrTypeMismatch)

Flags(v) ==
    <<v.ValidCardNumber, v.ValidExpiryMonth, v.ValidExpiryYear, v.ValidCVV,
      v.IsExpired>>

ErrorSet(v) == {v.Errors[j] : j \in 1..Len(v.Errors)}

\* C9: a second Validate of the same Card, at the same time as the first,
\* returns the flags and the set of error messages of the first and does not
\* change Type again.
C9_SecondCallAgrees ==
    \A i \in 1..(Len(calls) - 1) :
        ~calls[i].panicked /\ calls[i + 1].at = calls[i].at
            => /\ ~calls[i + 1].panicked
               /\ calls[i + 1].in = calls[i].out
               /\ Flags(calls[i + 1].val) = Flags(calls[i].val)
               /\ ErrorSet(calls[i + 1].val) = ErrorSet(calls[i].val)
               /\ calls[i + 1].out.Type = calls[i].out.Type

C9_Witness ==
    /\ Len(calls) >= 2
    /\ Returned = 1..Len(calls)
    /\ calls[2].at = calls[1].at
    /\ calls[1].in.Type = ""
    /\ calls[1].out.Type = "American Express"
    /\ Len(calls[1].in.CVV) = 4
    /\ calls[2].val.ValidCVV

\* The part of C10 that ties Errors to the flags.
ErrorsReflectFlags(i) ==
    LET v == calls[i].val
        c == calls[i].in
    IN  /\ Contains(v.Errors, errMonth(c)) <=> ~v.ValidExpiryMonth
        /\ Contains(v.Errors, errYear(c)) <=> ~v.ValidExpiryYear
        /\ Contains(v.Errors, ErrExpired) <=> v.IsExpired
        /\ Contains(v.Errors, ErrCVV) <=> v.ValidCVV
        /\ Contains(v.Errors, ErrNumber) <=> v.ValidCardNumber

\* The place of a message in the order month, year, expired, classifier
\* failure, cvv, card number; 0 for a message that order does not name.
ClaimedRank(m, c) ==
    CASE m = errMonth(c)    -> 1
      [] m = errYear(c)     -> 2
      [] m = ErrExpired     -> 3
      [] m = ErrUnknownType -> 4
      [] m = ErrCVV         -> 5
      [] m = ErrNumber      -> 6
      [] OTHER              -> 0

\* C10 as claimed: Errors reflects the flags, and its messages appear in the
\* order month, year, expired, classifier failure, cvv, card number.
C10_ErrorsInClaimedOrder ==
    \A i \in Returned :
        LET e == calls[i].val.Errors
            c == calls[i].in
        IN  /\ ErrorsReflectFlags(i)
            /\ \A j, k \in 1..Len(e) :
                   j < k /\ ClaimedRank(e[j], c) > 0 /\ ClaimedRank(e[k], c) > 0
                       => ClaimedRank(e[j], c) <= ClaimedRank(e[k], c)

\* The messages appended before the CVV check, in order.
RankBeforeCVV(m, c) ==
    CASE m = errMonth(c)    -> 1
      [] m = errYear(c)     -> 2
      [] m = ErrExpired     -> 3
      [] m = ErrUnknownType -> 4
      [] OTHER              -> 0

\* The messages appended from the CVV check on, in order.
RankFromCVV(m) ==
    CASE m = ErrCVV          -> 1
      [] m = ErrUnknownType  -> 2
      [] m = ErrTypeMismatch -> 2
      [] m = ErrNumber       -> 3
      [] OTHER               -> 0

\* C10 as amended: Errors reflects the flags, and its messages appear in the
\* order month, year, expired, classifier failure (of the backfill of an
\* empty Type), cvv, classifier failure or type mismatch (of the card number
\* check), card number, each at most once.
C10_ErrorsInCodeOrder ==
    \A i \in Returned :
        LET e == calls[i].val.Errors
            c == calls[i].in
        IN  /\ ErrorsReflectFlags(i)
            /\ \E n \in 0..Len(e) :
                   /\ \A j \in 1..n : RankBeforeCVV(e[j], c) > 0
                   /\ \A j \in 1..(n - 1) :
                          RankBeforeCVV(e[j], c) < RankBeforeCVV(e[j + 1], c)
                   /\ \A j \in (n + 1)..Len(e) : RankFromCVV(e[j]) > 0
                   /\ \A j \in (n + 1)..(Len(e) - 1) :
                          RankFromCVV(e[j]) < RankFromCVV(e[j + 1])

C10_Witness ==
    \E i \in Returned :
        LET e == calls[i].val.Errors
        IN  /\ calls[i].in.Type = "Something"
            /\ e = <<ErrCVV, ErrUnknownType>>

----------------------------------------------------------------------------
(* C7: the rule table of the specification, section 4.1                    *)

\* The integer the first n digits of a number make; none (-1) when the
\* number has fewer than n digits.
PrefixOf(Number, n) ==
    IF n <= Len(Number) THEN Atoi(SubSeq(Number, 1, n)) ELSE 0 - 1

InSome(x, ranges) == \E r \in ranges : r[1] <= x /\ x <= r[2]

\* The rules in table order: the network and its predicate on the number.
Table(Number) ==
    LET p1 == PrefixOf(Number, 1)
        p2 == PrefixOf(Number, 2)
        p3 == PrefixOf(Number, 3)
        p4 == PrefixOf(Number, 4)
        p6 == PrefixOf(Number, 6)
        len == Len(Number)
    IN  << <<Elo,
             \/ p4 \in {4011, 4576}
             \/ p6 \in {431274, 438935, 451416, 457393, 457631, 457632,
                        504175, 627780, 636297, 636368, 636369}
             \/ InSome(p6, { <<506699, 506778>>, <<509000, 509999>>,
                             <<650031, 650051>>, <<650035, 650033>>,
                             <<650405, 650439>>, <<650485, 650538>>,
                             <<650541, 650598>>, <<650700, 650718>>,
                             <<650720, 650727>>, <<650901, 650920>>,
                             <<651652, 651679>>, <<655000, 655019>>,
                             <<655021, 655021>> })>>,
           <<Cabal, InSome(p6, { <<604201, 604219>> })>>,
           <<Hipercard,
             \/ p6 \in {384100, 384140, 384160, 606282, 637095}
             \/ p4 \in {637568, 637599, 637609, 637612}>>,
           <<AmericanExpress, p2 \in {34, 37}>>,
           <<Bankcard, p4 = 5610 \/ InSome(p6, { <<560221, 560225>> })>>,
           <<ChinaUnionPay, p2 = 62>>,
           <<DinersClubCarteBlanche, InSome(p3, { <<300, 305>> }) /\ len = 15>>,
           <<DinersClubEnroute, p4 \in {2014, 2149}>>,
           <<DinersClubInternational,
             /\ InSome(p3, { <<300, 305>> }) \/ p3 = 309 \/ p2 \in {36, 38, 39}
             /\ len <= 14>>,
           <<Discover,
             \/ p4 = 6011 \/ InSome(p6, { <<622126, 622925>> })
             \/ InSome(p3, { <<644, 649>> }) \/ p2 = 65>>,
           <<InterPayment, p3 = 636 /\ len \in 16..19>>,
           <<InstaPayment, InSome(p3, { <<637, 639>> }) /\ len = 16>>,
           <<Maestro,
             \/ p4 \in {5018, 5020, 5038, 5612, 5893, 6304, 6759, 6761, 6762,
                        6763, 6390}
             \/ len >= 4 /\ SubSeq(Number, 1, 4) = <<"0", "6", "0", "4">> >>,
           <<Dankort, p4 = 5019>>,
           <<Mastercard, InSome(p2, { <<51, 55>> })>>,
           <<JCB, p2 = 35>>,
           <<Aura, p2 = 50>>,
           <<VisaElectron,
             p4 \in {4026, 4405, 4508, 4844, 4913, 4917} \/ p6 = 417500>>,
           <<Visa, p1 = 4>> >>

\* The first rule of the table the number satisfies; 0 when there is none.
FirstRule(Number) ==
    LET t == Table(Number)
        hits == {k \in 1..Len(t) : t[k][2]}
    IN  IF hits = {} THEN 0 ELSE CHOOSE k \in hits : \A h \in hits : k <= h

\* C7: determineCardType returns the network of the first rule of the table
\* of section 4.1 that the number satisfies (Maestro's test of the first four
\* characters against "0604" included), and the error "unknown creditcard
\* type" exactly when no rule is satisfied.
C7_FirstRuleOfTable ==
    ret # NoRet
        => LET k == FirstRule(card.Number)
           IN  IF k = 0 THEN ret = NotFound
               ELSE ret = Found(Table(card.Number)[k][1])

----------------------------------------------------------------------------
(* C11: the Luhn sum as the specification states it                        *)

\* The k-th digit from the right (the rightmost is the first), doubled when k
\* is even, and a double above 9 reduced by 9.
ClaimedTerm(Number, k) ==
    LET digit == DigitVal(Number[Len(Number) - k + 1])
    IN  IF k % 2 = 0
        THEN (IF 2 * digit > 9 THEN 2 * digit - 9 ELSE 2 * digit)
        ELSE digit

ClaimedSum(Number) ==
    LET S[k \in 0..Len(Number)] ==
            IF k = 0 THEN 0 ELSE S[k - 1] + ClaimedTerm(Number, k)
    IN  S[Len(Number)]

\* C11: validateLuhn returns false for a digit string of fewer than 13 or
\* more than 19 digits, and otherwise true exactly when the sum, from the
\* rightmost digit, of the digits with every second one doubled (less 9 when
\* the double exceeds 9) is a multiple of 10.
C11_LuhnAsClaimed ==
    luhn.called
        => (luhn.valid
               <=> /\ Len(card.Number) \in 13..19
                   /\ ClaimedSum(card.Number) % 10 = 0)

C11_Witness ==
    /\ luhn.called
    /\ luhn.valid
    /\ Len(card.Number) = 16
    /\ \E k \in 1..8 : DigitVal(card.Number[16 - 2 * k + 1]) >= 5

----------------------------------------------------------------------------
(* C12: China UnionPay before Discover                                     *)

\* The numbers C12 speaks of.
InUnionPayDiscoverRange(Number) ==
    PrefixOf(Number, 6) >= 622126 /\ PrefixOf(Number, 6) <= 622925

\* C12: a number whose first six digits lie in 622126..622925 is classified
\* China UnionPay, never Discover; a number classified Discover satisfies
\* another test of the Discover case (6011, 644..649 or 65).
C12_UnionPayNeverDiscover ==
    ret # NoRet
        => /\ InUnionPayDiscoverRange(card.Number)
                  => ret = Found(ChinaUnionPay)
           /\ ret = Found(Discover)
                  => \/ PrefixOf(card.Number, 4) = 6011
                     \/ PrefixOf(card.Number, 3) \in 644..649
                     \/ PrefixOf(card.Number, 2) = 65

C12_Witness ==
    /\ ret = Found(ChinaUnionPay)
    /\ InUnionPayDiscoverRange(card.Number)
    /\ Len(card.Number) = 16

====
